---- MODULE Spec2Model ----
(***************************************************************************)
(* Scenario instantiation (sim/src/scenario.rs) and the simulation run     *)
(* loops (sim/src/helpers.rs) of abstreet, as state machines.              *)
(*                                                                         *)
(*   Spec        Scenario::instantiate, run twice from the same starting   *)
(*               state (sim and twin) with different HashMap iteration     *)
(*               orders                                                    *)
(*   SpecExpect  Sim::run_until_expectations_met                           *)
(*   SpecDone    Sim::run_until_done                                       *)
(*   SpecSmallSpawn  the same, with the scenarios of Sim::small_spawn too  *)
(*   SpecTwice   Scenario::instantiate called a second time on the         *)
(*               simulation a first call completed on                      *)
(*   SpecFinalize  NeighborhoodBuilder::finalize                           *)
(***************************************************************************)
EXTENDS Integers, Sequences, FiniteSets, TLC

VARIABLES
    scenario,   \* the Scenario being instantiated (immutable)
    persisted,  \* what Neighborhood::load_all returns for the scenario's map
    sim0,       \* the simulation at the moment instantiate is called
    sim,        \* the simulation and instantiate's locals, first run
    twin,       \* the same call replayed from sim0 under another hash order
    xp,         \* run_until_expectations_met: its locals and the simulation
    rd,         \* run_until_done: its locals and the simulation
    fz,         \* NeighborhoodBuilder::finalize: the builder and the call's locals
    first,      \* the first call of instantiate as it ended, once a second one began
    borders     \* the map's all_incoming_borders() and all_outgoing_borders()

vars == <<scenario, persisted, sim0, sim, twin, xp, rd, fz, first, borders>>

----------------------------------------------------------------------------
(* Bounds of the model *)

MaxAgents == 2      \* num_agents, num_peds, num_cars range over 0..MaxAgents
MaxTick == 2        \* start_tick and stop_tick range over 0..MaxTick
MaxClock == 1       \* the clock at the call of instantiate ranges over 0..MaxClock
NumBldgs == 2       \* buildings of the map
MaxCars == 3        \* parking spots of the map
RngMod == 7         \* number of states of the random source
MaxRunClock == 4    \* run_until_expectations_met is followed up to this tick
MaxDoneClock == 6   \* run_until_done is followed up to this tick
MaxStart == 2       \* the clock at the call of a run loop ranges over 0..MaxStart
MaxLimit == 3       \* time_limit ranges over 0..MaxLimit
TicksPerMinute == 2 \* Tick::from_minutes(1), scaled down
MaxActive == 2      \* agents a step can leave unfinished
MaxPoints == 4      \* a NeighborhoodBuilder has 0..MaxPoints points
MaxLon == 1         \* width of the GPS bounds, in steps of longitude

----------------------------------------------------------------------------
(* The map: consumed read-only *)

EVERYWHERE == "_everywhere_"

all_buildings == [b \in 1..NumBldgs |-> b]

\* Pt2D::center(&b.points): building b has its centroid at (2b, 1)
BldgCenter(b) == <<2 * b, 1>>

\* map.get_bounds(): the rectangle (0,0)..(max_x, max_y) holds every building,
\* the last one with its centroid on the rectangle's right side
MapBounds == [max_x |-> 2 * NumBldgs, max_y |-> 2]

\* Polygon::new of an axis-aligned rectangle, by two opposite corners
Rect(x1, y1, x2, y2) == [x1 |-> x1, y1 |-> y1, x2 |-> x2, y2 |-> y2]

contains_pt(poly, pt) ==
    /\ poly.x1 <= pt[1] /\ pt[1] <= poly.x2
    /\ poly.y1 <= pt[2] /\ pt[2] <= poly.y2

Intersections == 1..4

\* map.get_i(i).get_incoming_lanes(map, LaneType::Driving)
get_incoming_lanes(i) ==
    CASE i = 1 -> <<11, 12>>
      [] i = 4 -> <<41>>
      [] OTHER -> <<>>

\* map.get_i(i).get_outgoing_lanes(map, LaneType::Driving)
get_outgoing_lanes(i) ==
    CASE i = 1 -> <<15, 16>>
      [] i = 4 -> <<45>>
      [] OTHER -> <<>>

\* intersections that have a sidewalk
HasSidewalk(i) == i \in {1, 3}

----------------------------------------------------------------------------
(* Option values, goals and trips *)

None == [kind |-> "None", b |-> 0, i |-> 0, lane |-> 0]

\* DrivingGoal::ParkNear(b), DrivingGoal::Border(i, lane)
ParkNear(b) == [kind |-> "ParkNear", b |-> b, i |-> 0, lane |-> 0]
DrivingBorder(i, l) == [kind |-> "Border", b |-> 0, i |-> i, lane |-> l]

\* SidewalkSpot::building(b, map), the sidewalk spots at a border
SpotBuilding(b) == [kind |-> "Building", b |-> b, i |-> 0, lane |-> 0]
SpotBorder(i) == [kind |-> "BorderSpot", b |-> 0, i |-> i, lane |-> 0]

\* SidewalkSpot::start_at_border and SidewalkSpot::end_at_border
start_at_border(i) == IF HasSidewalk(i) THEN SpotBorder(i) ELSE None
end_at_border(i) == IF HasSidewalk(i) THEN SpotBorder(i) ELSE None

\* OriginDestination
Neighborhood(n) == [tag |-> "Neighborhood", name |-> n, i |-> 0]
Border(i) == [tag |-> "Border", name |-> "", i |-> i]

----------------------------------------------------------------------------
(* The random source: a deterministic generator owned by the simulation *)

RngNext(s) == (3 * s + 1) % RngMod

\* one draw: the generator advances
Draw(st) == [st EXCEPT !.rng = RngNext(@), !.draws = @ + 1]

\* rng.gen_range(low, high), defined for low < high
gen_range(rng, low, high) == low + (rng % (high - low))

\* *rng.choose(values).unwrap(), defined for a non-empty values
choose(rng, values) == values[(rng % Len(values)) + 1]

----------------------------------------------------------------------------
(* Maps keyed by name (HashMap<String, _>) *)

EmptyMap == [x \in {} |-> 0]

Insert(m, k, v) == [x \in (DOMAIN m) \cup {k} |-> IF x = k THEN v ELSE m[x]]

RECURSIVE Collect(_)
\* Vec<(String, Neighborhood)>.into_iter().collect::<HashMap>()
Collect(pairs) ==
    IF pairs = <<>> THEN EmptyMap
    ELSE Insert(Collect(SubSeq(pairs, 1, Len(pairs) - 1)),
                pairs[Len(pairs)].name, pairs[Len(pairs)].polygon)

RECURSIVE KeysAscending(_)
KeysAscending(S) ==
    IF S = {} THEN <<>>
    ELSE LET k == CHOOSE x \in S : TRUE
         IN <<k>> \o KeysAscending(S \ {k})

Reverse(s) == [j \in 1..Len(s) |-> s[Len(s) + 1 - j]]

\* the order in which a HashMap with these keys is iterated in a run
IterationOrder(keys, order) ==
    IF order = "forward" THEN KeysAscending(keys) ELSE Reverse(KeysAscending(keys))

----------------------------------------------------------------------------
(* Neighborhoods *)

\* for b in map.all_buildings(): polygon.contains_pt(Pt2D::center(&b.points))
find_matching_buildings(polygon) ==
    SelectSeq(all_buildings, LAMBDA b : contains_pt(polygon, BldgCenter(b)))

\* road r runs along building r: its first centerline point lies below that
\* centroid, on the bottom side of the map's bounding rectangle
RoadFirstPt(r) == <<2 * r, 0>>

find_matching_roads(polygon) ==
    {r \in 1..NumBldgs : contains_pt(polygon, RoadFirstPt(r))}

\* a rectangle with max_x and max_y taken for each other
EverywhereTransposed == Rect(0, 0, MapBounds.max_y, MapBounds.max_x)

\* the ring (0,0), (max_x,0), (max_x,max_y), (0,max_y), (0,0)
make_everywhere == Rect(0, 0, MapBounds.max_x, MapBounds.max_y)

\* an insert that keeps a saved neighborhood of the name _everywhere_
LoadedKeepingSaved(saved) ==
    IF EVERYWHERE \in DOMAIN Collect(saved) THEN Collect(saved)
    ELSE Insert(Collect(saved), EVERYWHERE, make_everywhere)

\* the neighborhoods map of instantiate: load_all, then insert _everywhere_
LoadedNeighborhoods(saved) == Insert(Collect(saved), EVERYWHERE, make_everywhere)

RECURSIVE BldgsAccumulated(_, _)
\* a loop whose result vector is not cleared between neighborhoods
BldgsAccumulated(neighborhoods, names) ==
    IF names = <<>> THEN EmptyMap
    ELSE LET sofar == BldgsAccumulated(neighborhoods, SubSeq(names, 1, Len(names) - 1))
             prev == IF Len(names) = 1 THEN <<>> ELSE sofar[names[Len(names) - 1]]
         IN Insert(sofar, names[Len(names)],
                   prev \o find_matching_buildings(neighborhoods[names[Len(names)]]))

RECURSIVE BldgsPerNeighborhood(_, _)
\* for (name, neighborhood) in &neighborhoods { bldgs_per_neighborhood.insert(..) }
BldgsPerNeighborhood(neighborhoods, names) ==
    IF names = <<>> THEN EmptyMap
    ELSE Insert(BldgsPerNeighborhood(neighborhoods, SubSeq(names, 1, Len(names) - 1)),
                names[Len(names)],
                find_matching_buildings(neighborhoods[names[Len(names)]]))

RECURSIVE RoadsPerNeighborhood(_, _)
RoadsPerNeighborhood(neighborhoods, names) ==
    IF names = <<>> THEN EmptyMap
    ELSE Insert(RoadsPerNeighborhood(neighborhoods, SubSeq(names, 1, Len(names) - 1)),
                names[Len(names)],
                find_matching_roads(neighborhoods[names[Len(names)]]))

----------------------------------------------------------------------------
(* Parking: parking[c] is the building that owns parked car c *)

\* sim.parking_state.get_parked_cars_by_owner(bldg), in car order
get_parked_cars_by_owner(parking, bldg) ==
    SelectSeq([c \in 1..Len(parking) |-> c], LAMBDA c : parking[c] = bldg)

RECURSIVE SumOf(_)
SumOf(w) == IF w = <<>> THEN 0 ELSE w[Len(w)] + SumOf(SubSeq(w, 1, Len(w) - 1))

RECURSIVE PickWeighted(_, _, _)
\* WeightedUsizeChoice::sample: the index (from 0) the weighted draw r falls on
PickWeighted(w, r, j) ==
    IF j >= Len(w) THEN Len(w) - 1
    ELSE IF r < w[j] THEN j - 1
    ELSE PickWeighted(w, r - w[j], j + 1)

RECURSIVE SeedBuildings(_, _, _, _)
\* spawner.seed_parked_cars: for each owner building, in order, a weighted
\* draw of its number of cars, parked on free spots of the neighborhood's roads
SeedBuildings(st, owners, roads, weights) ==
    IF owners = <<>> THEN st
    ELSE LET n == PickWeighted(weights, st.rng % SumOf(weights), 1)
             free == IF roads = {} THEN 0 ELSE MaxCars - Len(st.parking)
             m == IF n < free THEN n ELSE free
             parked == [Draw(st) EXCEPT
                          !.parking = @ \o [c \in 1..m |-> Head(owners)]]
         IN SeedBuildings(parked, Tail(owners), roads, weights)

----------------------------------------------------------------------------
(* OriginDestination: resolving a goal.  The result is the Option returned  *)
(* (status Some or None) or the panic, with the simulation after the call.  *)

Resolved(status, goal, st) == [status |-> status, goal |-> goal, st |-> st]

pick_driving_goal(od, st) ==
    IF od.tag = "Neighborhood"
    THEN IF od.name \in DOMAIN st.bldgs_per_neighborhood
         THEN LET bldgs == st.bldgs_per_neighborhood[od.name]
              IN IF bldgs = <<>>
                 THEN Resolved("Panic", None, [st EXCEPT !.why = "unwrap"])
                 ELSE Resolved("Some", ParkNear(choose(st.rng, bldgs)), Draw(st))
         ELSE Resolved("Panic", None, [st EXCEPT !.why = "neighborhood"])
    ELSE LET lanes == get_incoming_lanes(od.i)
         IN IF lanes = <<>>
            THEN Resolved("None", None, [st EXCEPT !.warnings = @ + 1])
            ELSE Resolved("Some", DrivingBorder(od.i, lanes[1]), st)

pick_walking_goal(od, st) ==
    IF od.tag = "Neighborhood"
    THEN IF od.name \in DOMAIN st.bldgs_per_neighborhood
         THEN LET bldgs == st.bldgs_per_neighborhood[od.name]
              IN IF bldgs = <<>>
                 THEN Resolved("Panic", None, [st EXCEPT !.why = "unwrap"])
                 ELSE Resolved("Some", SpotBuilding(choose(st.rng, bldgs)), Draw(st))
         ELSE Resolved("Panic", None, [st EXCEPT !.why = "neighborhood"])
    ELSE LET goal == end_at_border(od.i)
         IN IF goal = None
            THEN Resolved("None", None, [st EXCEPT !.warnings = @ + 1])
            ELSE Resolved("Some", goal, st)

----------------------------------------------------------------------------
(* Scenario::instantiate, one operator per step of its body.  st is the    *)
(* simulation together with the locals of the call; sc is the Scenario.    *)

\* a spawn tick drawn up to stop_tick, stop_tick included
SpawnTimeInclusive(rng, s) == gen_range(rng, s.start_tick, s.stop_tick + 1)

\* the tick after the clock of the call, for every agent: Tick::zero().next()
SpawnTimeNextTick(rng, s) == 1

\* Tick(sim.rng.gen_range(s.start_tick.0, s.stop_tick.0))
SpawnTime(rng, s) == gen_range(rng, s.start_tick, s.stop_tick)

\* a panic (assert!, panic!, unwrap on None) ends the call where it stands
Panic(st, why) == [st EXCEPT !.pc = "panic", !.why = why]

\* what the simulation's trip-starting interface is handed
Trip(mode, at, from, goal, car, kind, rec) ==
    [mode |-> mode, at |-> at, from |-> from, goal |-> goal, car |-> car,
     kind |-> kind, rec |-> rec]

\* the locals of one agent iteration
Locals(kind, rec, spawn_time, from_bldg, parked_car, driving, walking, emitted) ==
    [kind |-> kind, rec |-> rec, spawn_time |-> spawn_time, from_bldg |-> from_bldg,
     parked_car |-> parked_car, driving |-> driving, walking |-> walking,
     emitted |-> emitted]

NoLocals == Locals("none", 0, 0, 0, 0, "untried", "untried", "none")

\* an instantiate without the clock assertion
NoAssertTickZero(st) == [st EXCEPT !.pc = "load"]

\* Neighborhood::load_all: the saved neighborhoods, in the order the run lists them
load_all(order) == IF order = "forward" THEN persisted ELSE Reverse(persisted)

\* assert!(sim.time == Tick::zero())
AssertTickZero(st) ==
    IF st.time = 0 THEN [st EXCEPT !.pc = "load"] ELSE Panic(st, "clock")

\* load the neighborhoods and compute the building and road set of each
LoadNeighborhoods(st) ==
    LET neighborhoods == LoadedNeighborhoods(load_all(st.order))
        names == IterationOrder(DOMAIN neighborhoods, st.order)
    IN [st EXCEPT !.pc = "seed", !.i = 1,
                  !.neighborhoods = neighborhoods,
                  !.bldgs_per_neighborhood = BldgsPerNeighborhood(neighborhoods, names),
                  !.roads_per_neighborhood = RoadsPerNeighborhood(neighborhoods, names)]

\* a reservation set that is a field of the simulation, never cleared
SeedParkedCarsKeeping(st, sc) ==
    IF st.i > Len(sc.seed_parked_cars)
    THEN [st EXCEPT !.pc = "spawn", !.i = 1]
    ELSE LET s == sc.seed_parked_cars[st.i]
         IN IF s.neighborhood \notin DOMAIN st.neighborhoods
            THEN Panic(st, "neighborhood")
            ELSE [SeedBuildings(st, st.bldgs_per_neighborhood[s.neighborhood],
                                st.roads_per_neighborhood[s.neighborhood],
                                s.cars_per_building)
                    EXCEPT !.i = st.i + 1]

\* for s in &self.seed_parked_cars
SeedParkedCars(st, sc) ==
    IF st.i > Len(sc.seed_parked_cars)
    THEN [st EXCEPT !.pc = "spawn", !.i = 1, !.reserved_cars = {}]
    ELSE LET s == sc.seed_parked_cars[st.i]
         IN IF s.neighborhood \notin DOMAIN st.neighborhoods
            THEN Panic(st, "neighborhood")
            ELSE [SeedBuildings(st, st.bldgs_per_neighborhood[s.neighborhood],
                                st.roads_per_neighborhood[s.neighborhood],
                                s.cars_per_building)
                    EXCEPT !.i = st.i + 1]

\* for s in &self.spawn_over_time: the neighborhood check that opens a record
SpawnOverTime(st, sc) ==
    IF st.i > Len(sc.spawn_over_time)
    THEN [st EXCEPT !.pc = "border", !.i = 1]
    ELSE IF sc.spawn_over_time[st.i].start_from_neighborhood \notin DOMAIN st.neighborhoods
         THEN Panic(st, "neighborhood")
         ELSE [st EXCEPT !.pc = "agent", !.k = 0]

\* a search that forgets the reservation set
FindAnyCar(cars, reserved_cars) == IF cars = <<>> THEN 0 ELSE Head(cars)

\* a search that takes the last unreserved car instead of the first
FindLastUnreserved(cars, reserved_cars) ==
    LET free == SelectSeq(cars, LAMBDA c : c \notin reserved_cars)
    IN IF free = <<>> THEN 0 ELSE free[Len(free)]

\* the first parked car of the building that is not reserved, 0 when none
FindUnreserved(cars, reserved_cars) ==
    LET free == SelectSeq(cars, LAMBDA c : c \notin reserved_cars)
    IN IF free = <<>> THEN 0 ELSE Head(free)

\* the mode choice of one agent, after spawn_time and from_bldg were drawn
ChooseMode(st, s, spawn_time, from_bldg) ==
    LET parked_car == FindUnreserved(get_parked_cars_by_owner(st.parking, from_bldg),
                                     st.reserved_cars)
    IN IF parked_car # 0
       THEN LET g == pick_driving_goal(s.goal, st)
            IN IF g.status = "Panic" THEN Panic(g.st, g.st.why)
               ELSE IF g.status = "Some"
               THEN [g.st EXCEPT
                       !.reserved_cars = @ \cup {parked_car},
                       !.trips = Append(@, Trip("drive", spawn_time, SpotBuilding(from_bldg),
                                                g.goal, parked_car, "spawn", st.i)),
                       !.last = Locals("spawn", st.i, spawn_time, from_bldg, parked_car,
                                       "Some", "untried", "drive")]
               ELSE [g.st EXCEPT
                       !.last = Locals("spawn", st.i, spawn_time, from_bldg, parked_car,
                                       "None", "untried", "none")]
       ELSE LET g == pick_walking_goal(s.goal, st)
            IN IF g.status = "Panic" THEN Panic(g.st, g.st.why)
               ELSE IF g.status = "Some"
               THEN [g.st EXCEPT
                       !.trips = Append(@, Trip("walk", spawn_time, SpotBuilding(from_bldg),
                                                g.goal, 0, "spawn", st.i)),
                       !.last = Locals("spawn", st.i, spawn_time, from_bldg, 0,
                                       "untried", "Some", "walk")]
               ELSE [g.st EXCEPT
                       !.last = Locals("spawn", st.i, spawn_time, from_bldg, 0,
                                       "untried", "None", "none")]

\* for _ in 0..s.num_agents: one iteration, or the end of the record
SpawnAgent(st, sc) ==
    LET s == sc.spawn_over_time[st.i]
    IN IF st.k >= s.num_agents THEN [st EXCEPT !.pc = "spawn", !.i = @ + 1]
       ELSE IF s.start_tick >= s.stop_tick THEN Panic(st, "gen_range")
       ELSE LET spawn_time == SpawnTime(st.rng, s)
                st1 == Draw(st)
                bldgs == st.bldgs_per_neighborhood[s.start_from_neighborhood]
            IN IF bldgs = <<>> THEN Panic(st1, "unwrap")
               ELSE LET from_bldg == choose(st1.rng, bldgs)
                        st2 == [Draw(st1) EXCEPT !.k = @ + 1]
                    IN ChooseMode(st2, s, spawn_time, from_bldg)

\* a record whose border has no sidewalk is given up as a whole
BorderSkipWithoutSidewalk(st, sc) ==
    IF st.i > Len(sc.border_spawn_over_time)
    THEN [st EXCEPT !.pc = "done"]
    ELSE IF start_at_border(sc.border_spawn_over_time[st.i].start_from_border) # None
         THEN [st EXCEPT !.pc = "ped", !.k = 0]
         ELSE [st EXCEPT !.pc = "border", !.i = @ + 1, !.warnings = @ + 1]

\* for s in &self.border_spawn_over_time: the sidewalk check that opens a record
BorderSpawnOverTime(st, sc) ==
    IF st.i > Len(sc.border_spawn_over_time)
    THEN [st EXCEPT !.pc = "done"]
    ELSE IF start_at_border(sc.border_spawn_over_time[st.i].start_from_border) # None
         THEN [st EXCEPT !.pc = "ped", !.k = 0]
         ELSE [st EXCEPT !.pc = "lanes", !.warnings = @ + 1]

\* for _ in 0..s.num_peds: one iteration, or the end of the loop
BorderPed(st, sc) ==
    LET s == sc.border_spawn_over_time[st.i]
        start == start_at_border(s.start_from_border)
    IN IF st.k >= s.num_peds THEN [st EXCEPT !.pc = "lanes"]
       ELSE IF s.start_tick >= s.stop_tick THEN Panic(st, "gen_range")
       ELSE LET spawn_time == SpawnTime(st.rng, s)
                g == pick_walking_goal(s.goal, [Draw(st) EXCEPT !.k = @ + 1])
            IN IF g.status = "Panic" THEN Panic(g.st, g.st.why)
               ELSE IF g.status = "Some"
               THEN [g.st EXCEPT
                       !.trips = Append(@, Trip("walk", spawn_time, start, g.goal, 0,
                                                "border", st.i)),
                       !.last = Locals("ped", st.i, spawn_time, 0, 0,
                                       "untried", "Some", "walk")]
               ELSE [g.st EXCEPT
                       !.last = Locals("ped", st.i, spawn_time, 0, 0,
                                       "untried", "None", "none")]

\* let starting_lanes = ..get_outgoing_lanes(..); if !starting_lanes.is_empty()
BorderLanes(st, sc) ==
    IF get_outgoing_lanes(sc.border_spawn_over_time[st.i].start_from_border) # <<>>
    THEN [st EXCEPT !.pc = "car", !.k = 0]
    ELSE [st EXCEPT !.pc = "border", !.i = @ + 1, !.warnings = @ + 1]

\* for _ in 0..s.num_cars: one iteration, or the end of the record.
\* start_trip_with_car_at_border is handed the random source and draws from it.
BorderCar(st, sc) ==
    LET s == sc.border_spawn_over_time[st.i]
        starting_lanes == get_outgoing_lanes(s.start_from_border)
    IN IF st.k >= s.num_cars THEN [st EXCEPT !.pc = "border", !.i = @ + 1]
       ELSE IF s.start_tick >= s.stop_tick THEN Panic(st, "gen_range")
       ELSE LET spawn_time == SpawnTime(st.rng, s)
                g == pick_driving_goal(s.goal, [Draw(st) EXCEPT !.k = @ + 1])
            IN IF g.status = "Panic" THEN Panic(g.st, g.st.why)
               ELSE IF g.status = "Some"
               THEN [Draw(g.st) EXCEPT
                       !.trips = Append(@, Trip("car", spawn_time,
                                                DrivingBorder(s.start_from_border,
                                                              starting_lanes[1]),
                                                g.goal, 0, "border", st.i)),
                       !.last = Locals("car", st.i, spawn_time, 0, 0,
                                       "Some", "untried", "car")]
               ELSE [g.st EXCEPT
                       !.last = Locals("car", st.i, spawn_time, 0, 0,
                                       "None", "untried", "none")]

\* an instantiate whose border records start their cars before their
\* pedestrians
InstantiateCarsFirst(st, sc) ==
    LET peds == LET q == BorderSpawnOverTime(st, sc)
                IN IF q.pc = "ped" THEN q ELSE [q EXCEPT !.pc = "border", !.i = st.i + 1]
    IN CASE st.pc = "call" -> AssertTickZero(st)
         [] st.pc = "load" -> LoadNeighborhoods(st)
         [] st.pc = "seed" -> SeedParkedCars(st, sc)
         [] st.pc = "spawn" -> SpawnOverTime(st, sc)
         [] st.pc = "agent" -> SpawnAgent(st, sc)
         [] st.pc = "border" ->
               IF st.i > Len(sc.border_spawn_over_time) THEN [st EXCEPT !.pc = "done"]
               ELSE LET r == BorderLanes(st, sc)
                    IN IF r.pc = "car" THEN r ELSE [peds EXCEPT !.warnings = r.warnings]
         [] st.pc = "car" ->
               LET r == BorderCar(st, sc) IN IF r.pc = "border" THEN peds ELSE r
         [] st.pc = "ped" ->
               LET r == BorderPed(st, sc)
               IN IF r.pc = "lanes" THEN [st EXCEPT !.pc = "border", !.i = @ + 1] ELSE r
         [] OTHER -> st

\* the next step of a call of instantiate, by where the call stands
instantiate(st, sc) ==
    CASE st.pc = "call" -> AssertTickZero(st)
      [] st.pc = "load" -> LoadNeighborhoods(st)
      [] st.pc = "seed" -> SeedParkedCars(st, sc)
      [] st.pc = "spawn" -> SpawnOverTime(st, sc)
      [] st.pc = "agent" -> SpawnAgent(st, sc)
      [] st.pc = "border" -> BorderSpawnOverTime(st, sc)
      [] st.pc = "ped" -> BorderPed(st, sc)
      [] st.pc = "lanes" -> BorderLanes(st, sc)
      [] st.pc = "car" -> BorderCar(st, sc)
      [] OTHER -> st

----------------------------------------------------------------------------
(* The inputs of instantiate: scenarios, persisted neighborhoods, the      *)
(* simulation at the call                                                  *)

Names == {EVERYWHERE, "n1", "void", "nowhere"}

\* saved neighborhoods: n1 holds building 1, void holds no building
Saved == <<[name |-> "n1", polygon |-> Rect(1, 0, 3, 2)],
           [name |-> "void", polygon |-> Rect(0, 0, 1, 2)]>>

\* the same with a saved neighborhood that took the name _everywhere_
SavedWithEverywhere == Append(Saved, [name |-> EVERYWHERE, polygon |-> Rect(0, 0, 1, 2)])

Goals == {Neighborhood(n) : n \in Names} \cup {Border(i) : i \in Intersections}

Counts == 0..MaxAgents
Ticks == 0..MaxTick

SeedRec(n, w) == [neighborhood |-> n, cars_per_building |-> w]

SpawnRec(n, t1, t2, from, goal) ==
    [num_agents |-> n, start_tick |-> t1, stop_tick |-> t2,
     start_from_neighborhood |-> from, goal |-> goal]

BorderRec(np, nc, t1, t2, from, goal) ==
    [num_peds |-> np, num_cars |-> nc, start_tick |-> t1, stop_tick |-> t2,
     start_from_border |-> from, goal |-> goal]

\* the name of the map handed to instantiate
MapName == "map"

\* a scenario written for the map that is loaded
MakeScenario(seed, spawn, border) ==
    [scenario_name |-> "scenario", map_name |-> MapName,
     seed_parked_cars |-> seed, spawn_over_time |-> spawn,
     border_spawn_over_time |-> border]

\* the same scenario, written for the map of this name
ForMap(sc, map_name) == [sc EXCEPT !.map_name = map_name]

Case(sc, saved, parking) == [scenario |-> sc, persisted |-> saved, parking |-> parking]

\* parked cars seeded before the call (seed_specific_parked_cars)
Inventories == {<<>>, <<1>>, <<1, 1>>, <<2, 1>>}

\* one spawn_over_time record: every tick interval and count
SpawnTickCases ==
    {Case(MakeScenario(<<>>, <<SpawnRec(n, t1, t2, EVERYWHERE, Neighborhood(EVERYWHERE))>>,
                       <<>>), Saved, <<1>>) :
        n \in Counts, t1 \in Ticks, t2 \in Ticks}

\* one spawn_over_time record: every origin, goal, count and inventory
SpawnGoalCases ==
    {Case(MakeScenario(<<>>, <<SpawnRec(n, 0, MaxTick, from, goal)>>, <<>>), Saved, p) :
        n \in Counts, from \in Names, goal \in Goals, p \in Inventories}

\* two spawn_over_time records out of building 1
SpawnPairRecs ==
    {SpawnRec(n, 0, MaxTick, "n1", goal) :
        n \in 1..MaxAgents, goal \in {Neighborhood(EVERYWHERE), Border(1), Border(2)}}

SpawnPairCases ==
    {Case(MakeScenario(<<>>, <<r1, r2>>, <<>>), Saved, p) :
        r1 \in SpawnPairRecs, r2 \in SpawnPairRecs, p \in {<<1>>, <<1, 1>>}}

\* seeding, then agents leaving the seeded buildings
SeedCases ==
    {Case(MakeScenario(<<SeedRec(n, w)>>,
                       <<SpawnRec(MaxAgents, 0, MaxTick, from, Neighborhood(EVERYWHERE))>>,
                       <<>>), Saved, p) :
        n \in Names, w \in {<<1, 1>>, <<0, 0, 1>>}, from \in {EVERYWHERE, "n1"},
        p \in {<<>>, <<1>>}}

\* one border_spawn_over_time record: every border, goal and counts
BorderCases ==
    {Case(MakeScenario(<<>>, <<>>, <<BorderRec(np, nc, 0, MaxTick, from, goal)>>),
          Saved, <<>>) :
        np \in Counts, nc \in Counts, from \in Intersections, goal \in Goals}

BorderTickCases ==
    {Case(MakeScenario(<<>>, <<>>, <<BorderRec(1, 1, t1, t2, from, Border(1))>>),
          Saved, <<>>) :
        t1 \in Ticks, t2 \in Ticks, from \in Intersections}

\* every kind of record in one scenario, with and without a saved _everywhere_
MixedCases ==
    {Case(MakeScenario(<<SeedRec(EVERYWHERE, <<1, 1>>), SeedRec("n1", <<0, 1>>)>>,
                       <<SpawnRec(1, 0, MaxTick, from, goal)>>,
                       <<BorderRec(1, 1, 0, MaxTick, 1, goal),
                         BorderRec(1, 1, 0, MaxTick, b, Neighborhood("n1"))>>),
          saved, <<>>) :
        from \in {EVERYWHERE, "n1"}, goal \in {Neighborhood(EVERYWHERE), Border(1)},
        b \in Intersections, saved \in {Saved, SavedWithEverywhere}}

\* scenarios written for another map, for which no neighborhood is saved
OtherMapCases ==
    {Case(ForMap(MakeScenario(<<SeedRec(EVERYWHERE, <<1, 1>>)>>,
                              <<SpawnRec(n, 0, MaxTick, EVERYWHERE, goal)>>,
                              <<BorderRec(1, 1, 0, MaxTick, 1, goal)>>), "other"),
          <<>>, p) :
        n \in Counts, goal \in {Neighborhood(EVERYWHERE), Border(1)}, p \in {<<>>, <<1>>}}

Cases ==
    SpawnTickCases \cup SpawnGoalCases \cup SpawnPairCases \cup SeedCases
    \cup BorderCases \cup BorderTickCases \cup MixedCases \cup OtherMapCases

\* the simulation when instantiate is called
SimAtCall(time, rng, parking, order) ==
    [pc |-> "call", why |-> "", order |-> order,
     time |-> time, rng |-> rng, draws |-> 0, warnings |-> 0,
     parking |-> parking, trips |-> <<>>, reserved_cars |-> {},
     neighborhoods |-> EmptyMap, bldgs_per_neighborhood |-> EmptyMap,
     roads_per_neighborhood |-> EmptyMap,
     i |-> 0, k |-> 0, last |-> NoLocals]

XpIdle == [pc |-> "idle"]
RdIdle == [pc |-> "idle"]
FzIdle == [pc |-> "idle"]
NoCall == [pc |-> "idle"]

\* the borders of the map where small_spawn is not what is run
MapBorders == [incoming |-> <<1, 3>>, outgoing |-> <<1, 4>>]

Init ==
    \E c \in Cases, time \in 0..MaxClock, rng \in 0..(RngMod - 1) :
        /\ scenario = c.scenario
        /\ persisted = c.persisted
        /\ sim0 = SimAtCall(time, rng, c.parking, "forward")
        /\ sim = sim0
        /\ twin = SimAtCall(time, rng, c.parking, "reverse")
        /\ xp = XpIdle
        /\ rd = RdIdle
        /\ fz = FzIdle
        /\ first = NoCall
        /\ borders = MapBorders

\* both runs take their next step
Both == /\ sim' = instantiate(sim, scenario)
        /\ twin' = instantiate(twin, scenario)
        /\ UNCHANGED <<scenario, persisted, sim0, xp, rd, fz, first, borders>>

Call == sim.pc = "call" /\ Both
Load == sim.pc = "load" /\ Both
Seed == sim.pc = "seed" /\ Both
Spawn == sim.pc = "spawn" /\ Both
Agent == sim.pc = "agent" /\ Both
BorderRecord == sim.pc = "border" /\ Both
Ped == sim.pc = "ped" /\ Both
Lanes == sim.pc = "lanes" /\ Both
Car == sim.pc = "car" /\ Both

Next == Call \/ Load \/ Seed \/ Spawn \/ Agent \/ BorderRecord \/ Ped \/ Lanes \/ Car

Spec == Init /\ [][Next]_vars

----------------------------------------------------------------------------
(* Sim::small_spawn: the scenario it builds for the map, then instantiate  *)

SmallSpawnAgents == 100     \* num_agents of the first spawn_over_time record
SmallSpawnPeds == 10        \* num_peds of a border record
SmallSpawnCars == 10        \* num_cars of a border record
SmallSpawnLeaving == 10     \* num_agents of the record pushed for an outgoing border
SmallSpawnSeconds == 5      \* Tick::from_seconds(5)

\* Tick::from_seconds, a tick of the model lasting one second
from_seconds(secs) == secs

\* a scenario that pushes its 10-agent records for the incoming borders
SmallSpawnOverIncoming(incoming, outgoing) ==
    [scenario_name |-> "small_spawn", map_name |-> MapName,
     seed_parked_cars |-> <<SeedRec(EVERYWHERE, <<5, 5>>)>>,
     spawn_over_time |->
        <<SpawnRec(SmallSpawnAgents, 0, from_seconds(SmallSpawnSeconds),
                   EVERYWHERE, Neighborhood(EVERYWHERE))>>
        \o [j \in 1..Len(incoming) |->
               SpawnRec(SmallSpawnLeaving, 0, from_seconds(SmallSpawnSeconds),
                        EVERYWHERE, Border(incoming[j]))],
     border_spawn_over_time |->
        [j \in 1..Len(incoming) |->
            BorderRec(SmallSpawnPeds, SmallSpawnCars, 0, from_seconds(SmallSpawnSeconds),
                      incoming[j], Neighborhood(EVERYWHERE))]]

\* the Scenario small_spawn builds: cars seeded over _everywhere_, 100 agents
\* within _everywhere_, 10 pedestrians and 10 cars out of every incoming
\* border, and 10 agents of _everywhere_ towards every outgoing border
small_spawn(incoming, outgoing) ==
    [scenario_name |-> "small_spawn", map_name |-> MapName,
     seed_parked_cars |-> <<SeedRec(EVERYWHERE, <<5, 5>>)>>,
     spawn_over_time |->
        <<SpawnRec(SmallSpawnAgents, 0, from_seconds(SmallSpawnSeconds),
                   EVERYWHERE, Neighborhood(EVERYWHERE))>>
        \o [j \in 1..Len(outgoing) |->
               SpawnRec(SmallSpawnLeaving, 0, from_seconds(SmallSpawnSeconds),
                        EVERYWHERE, Border(outgoing[j]))],
     border_spawn_over_time |->
        [j \in 1..Len(incoming) |->
            BorderRec(SmallSpawnPeds, SmallSpawnCars, 0, from_seconds(SmallSpawnSeconds),
                      incoming[j], Neighborhood(EVERYWHERE))]]

\* the border lists of the maps small_spawn is run on
BorderLists == {<<>>, <<1>>, <<3, 4>>, <<1, 2, 3, 4>>}

InitSmallSpawn ==
    \E incoming \in BorderLists, outgoing \in BorderLists, rng \in 0..(RngMod - 1) :
        /\ borders = [incoming |-> incoming, outgoing |-> outgoing]
        /\ scenario = small_spawn(incoming, outgoing)
        /\ persisted = Saved
        /\ sim0 = SimAtCall(0, rng, <<>>, "forward")
        /\ sim = sim0
        /\ twin = SimAtCall(0, rng, <<>>, "reverse")
        /\ xp = XpIdle /\ rd = RdIdle /\ fz = FzIdle /\ first = NoCall

\* instantiate on the scenarios of Init and on those of small_spawn
InitAnySpawn == Init \/ InitSmallSpawn

SpecSmallSpawn == InitAnySpawn /\ [][Next]_vars

\* the simulation a completed call leaves, at the call of the next one: the
\* clock, the random source and the parking inventory are the simulation's;
\* the locals of the call that ended stay where they were until the new call
\* declares its own
SimAtNextCall(st) ==
    [SimAtCall(st.time, st.rng, st.parking, st.order)
        EXCEPT !.reserved_cars = st.reserved_cars]

\* instantiate is called again, with the same scenario, on the simulation the
\* first call completed on
Again ==
    /\ sim.pc = "done" /\ first = NoCall
    /\ first' = sim
    /\ sim0' = SimAtNextCall(sim)
    /\ sim' = sim0'
    /\ twin' = SimAtNextCall(twin)
    /\ UNCHANGED <<scenario, persisted, xp, rd, fz, borders>>

NextTwice == Next \/ Again

SpecTwice == Init /\ [][NextTwice]_vars

----------------------------------------------------------------------------
(* Properties of Scenario::instantiate, checked under Spec                 *)

TripIxs == 1..Len(sim.trips)
DriveIxs == {a \in TripIxs : sim.trips[a].mode = "drive"}

\* the record a trip came from
RecordOf(t) ==
    IF t.kind = "spawn" THEN scenario.spawn_over_time[t.rec]
    ELSE scenario.border_spawn_over_time[t.rec]

\* the neighborhoods a call of instantiate knows
Declared == DOMAIN LoadedNeighborhoods(persisted)

\* C1: within one instantiate call no parked car is used by two drive trips,
\* the car of the drive trip just emitted was outside the reservation set
\* when it was chosen, and the reservation set is exactly the set of cars
\* used by the drive trips emitted so far.
C1_NoCarReservedTwice ==
    /\ \A a \in DriveIxs, b \in DriveIxs : a # b => sim.trips[a].car # sim.trips[b].car
    /\ sim.reserved_cars = {sim.trips[a].car : a \in DriveIxs}
    /\ \A a \in DriveIxs :
          /\ sim.trips[a].car \in 1..Len(sim.parking)
          /\ \A b \in DriveIxs : b < a => sim.trips[b].car # sim.trips[a].car

\* two drive trips of different spawn_over_time records leave the same building
C1_Witness ==
    \E a \in DriveIxs, b \in DriveIxs :
        /\ sim.trips[a].rec # sim.trips[b].rec
        /\ sim.trips[a].from = sim.trips[b].from
        /\ sim.trips[a].car # sim.trips[b].car

\* C4: every trip emitted has a spawn tick t with start_tick <= t < stop_tick
\* of the record that produced it, and a record with start_tick >= stop_tick
\* emits no trip at all.
C4_SpawnTickInInterval ==
    \A a \in TripIxs :
        LET t == sim.trips[a]
        IN /\ RecordOf(t).start_tick <= t.at
           /\ t.at < RecordOf(t).stop_tick

\* a trip drawn strictly inside its interval, after its first tick
C4_Witness ==
    \E a \in TripIxs :
        /\ sim.trips[a].at > RecordOf(sim.trips[a]).start_tick
        /\ sim.trips[a].at = RecordOf(sim.trips[a]).stop_tick - 1

\* a driving (walking) goal resolves for this goal, by the map alone
DrivingGoalResolves(od) ==
    IF od.tag = "Neighborhood"
    THEN od.name \in Declared /\ find_matching_buildings(LoadedNeighborhoods(persisted)[od.name]) # <<>>
    ELSE get_incoming_lanes(od.i) # <<>>

WalkingGoalResolves(od) ==
    IF od.tag = "Neighborhood"
    THEN od.name \in Declared /\ find_matching_buildings(LoadedNeighborhoods(persisted)[od.name]) # <<>>
    ELSE HasSidewalk(od.i)

\* the unreserved cars of a building before an agent iteration
FreeCarsBefore(bldg) ==
    {c \in 1..Len(sim.parking) : sim.parking[c] = bldg /\ c \notin sim.reserved_cars}

SetMin(S) == CHOOSE x \in S : \A y \in S : x <= y

\* an agent iteration of spawn_over_time that ran to its end
AgentIteration == sim.pc = "agent" /\ sim'.k = sim.k + 1 /\ sim'.pc = "agent"

NewTrips == SubSeq(sim'.trips, Len(sim.trips) + 1, Len(sim'.trips))

\* C5: an agent whose origin building has an unreserved car and whose driving
\* goal resolves gets exactly one drive trip, with the first such car, and no
\* walk trip; an agent without a free car gets a walk trip when its walking
\* goal resolves, and nothing else; a walk trip is never emitted for an agent
\* that had both a free car and a driving goal.
C5_Step ==
    AgentIteration =>
        LET s == scenario.spawn_over_time[sim.i]
            free == FreeCarsBefore(sim'.last.from_bldg)
        IN /\ Len(NewTrips) <= 1
           /\ sim'.last.from_bldg \in 1..NumBldgs
           /\ (free # {} /\ DrivingGoalResolves(s.goal)) =>
                 /\ Len(NewTrips) = 1
                 /\ NewTrips[1].mode = "drive"
                 /\ NewTrips[1].car = SetMin(free)
                 /\ NewTrips[1].from = SpotBuilding(sim'.last.from_bldg)
           /\ free = {} =>
                 /\ \A a \in 1..Len(NewTrips) : NewTrips[a].mode = "walk"
                 /\ WalkingGoalResolves(s.goal) => Len(NewTrips) = 1
           /\ \A a \in 1..Len(NewTrips) :
                 NewTrips[a].mode = "walk" => ~(free # {} /\ DrivingGoalResolves(s.goal))

C5_DrivePreferred == [][C5_Step]_vars

\* an agent walks out of a building whose cars are all reserved, although a
\* driving goal would resolve
C5_Witness ==
    /\ sim.last.kind = "spawn" /\ sim.last.emitted = "walk"
    /\ DrivingGoalResolves(scenario.spawn_over_time[sim.last.rec].goal)
    /\ \E c \in sim.reserved_cars : sim.parking[c] = sim.last.from_bldg
    /\ \E a \in DriveIxs : sim.trips[a].from = SpotBuilding(sim.last.from_bldg)

\* C6 as claimed: an agent with a free car whose driving goal does not resolve
\* falls back to walking, so a walk trip is emitted when the walking goal
\* resolves; the car is not reserved.
C6_Step ==
    AgentIteration =>
        LET s == scenario.spawn_over_time[sim.i]
            free == FreeCarsBefore(sim'.last.from_bldg)
        IN (free # {} /\ ~DrivingGoalResolves(s.goal)) =>
              /\ sim'.reserved_cars = sim.reserved_cars
              /\ WalkingGoalResolves(s.goal) =>
                    (Len(NewTrips) = 1 /\ NewTrips[1].mode = "walk")

C6_WalkFallback == [][C6_Step]_vars

C8_ClockPrecondition ==
    sim0.time # 0 =>
        /\ sim.pc \in {"call", "panic"}
        /\ sim.pc = "panic" => sim.why = "clock"
        /\ sim.trips = <<>> /\ sim.reserved_cars = {}
        /\ sim.parking = sim0.parking
        /\ sim.rng = sim0.rng /\ sim.draws = 0

\* the call has panicked on a clock off zero, with records it would have run
C8_Witness ==
    /\ sim0.time # 0 /\ sim.pc = "panic"
    /\ scenario.seed_parked_cars # <<>>
    /\ scenario.spawn_over_time # <<>>

\* the neighborhood names the scenario references
Referenced ==
    {scenario.seed_parked_cars[j].neighborhood : j \in 1..Len(scenario.seed_parked_cars)}
    \cup {scenario.spawn_over_time[j].start_from_neighborhood :
             j \in 1..Len(scenario.spawn_over_time)}
    \cup {scenario.spawn_over_time[j].goal.name :
             j \in {x \in 1..Len(scenario.spawn_over_time) :
                       scenario.spawn_over_time[x].goal.tag = "Neighborhood"}}
    \cup {scenario.border_spawn_over_time[j].goal.name :
             j \in {x \in 1..Len(scenario.border_spawn_over_time) :
                       scenario.border_spawn_over_time[x].goal.tag = "Neighborhood"}}

\* C9 as claimed: instantiate never runs to completion on a scenario that
\* references an undeclared neighborhood name.
C9_UndeclaredIsFatal == sim.pc = "done" => Referenced \subseteq Declared

\* the trips of border record j with this mode, among the trips emitted
BorderTrips(trips, j, mode) ==
    {a \in 1..Len(trips) :
        trips[a].kind = "border" /\ trips[a].rec = j /\ trips[a].mode = mode}

\* C12: the pedestrians and the cars of a border record are handled apart.
\* Without a sidewalk at the border the record gets no walk trip and the
\* pedestrians take no draw, and the cars are processed all the same; without
\* an outgoing driving lane it gets no car trip and the cars take no draw,
\* the pedestrians having been processed; neither ends the call.  Every walk
\* trip starts at the border's sidewalk, every car trip on its first outgoing
\* driving lane, and a record whose call completed has all its pedestrians
\* or none, and all its cars or none.
C12_Step ==
    LET recs == scenario.border_spawn_over_time
        opens == sim.pc = "border" /\ sim.i <= Len(recs)
        from == recs[sim.i].start_from_border
    IN /\ (opens /\ ~HasSidewalk(from)) =>
             /\ sim'.pc = "lanes" /\ sim'.i = sim.i
             /\ sim'.draws = sim.draws /\ sim'.rng = sim.rng
             /\ sim'.trips = sim.trips
       /\ (opens /\ HasSidewalk(from)) => (sim'.pc = "ped" /\ sim'.k = 0)
       /\ (sim.pc = "lanes" /\ get_outgoing_lanes(from) = <<>>) =>
             /\ sim'.pc = "border" /\ sim'.i = sim.i + 1
             /\ sim'.draws = sim.draws /\ sim'.rng = sim.rng
             /\ sim'.trips = sim.trips
       /\ (sim.pc = "lanes" /\ get_outgoing_lanes(from) # <<>>) =>
             (sim'.pc = "car" /\ sim'.k = 0 /\ sim'.i = sim.i)
       /\ \A a \in 1..Len(sim'.trips) :
             LET t == sim'.trips[a]
                 b == recs[t.rec].start_from_border
             IN t.kind = "border" =>
                   /\ t.mode \in {"walk", "car"}
                   /\ t.mode = "walk" => (HasSidewalk(b) /\ t.from = SpotBorder(b))
                   /\ t.mode = "car" =>
                         /\ get_outgoing_lanes(b) # <<>>
                         /\ t.from = DrivingBorder(b, Head(get_outgoing_lanes(b)))
       /\ sim'.pc = "done" =>
             \A j \in 1..Len(recs) :
                /\ Cardinality(BorderTrips(sim'.trips, j, "walk")) =
                      IF HasSidewalk(recs[j].start_from_border)
                         /\ WalkingGoalResolves(recs[j].goal)
                      THEN recs[j].num_peds ELSE 0
                /\ Cardinality(BorderTrips(sim'.trips, j, "car")) =
                      IF get_outgoing_lanes(recs[j].start_from_border) # <<>>
                         /\ DrivingGoalResolves(recs[j].goal)
                      THEN recs[j].num_cars ELSE 0

C12_BorderPedsAndCarsApart == [][C12_Step]_vars

\* a completed call with a record at a border that has outgoing driving lanes
\* and no sidewalk: its pedestrians were given up, its cars all started
C12_Witness ==
    /\ sim.pc = "done"
    /\ \E j \in 1..Len(scenario.border_spawn_over_time) :
          LET s == scenario.border_spawn_over_time[j]
          IN /\ ~HasSidewalk(s.start_from_border)
             /\ s.num_peds > 0 /\ s.num_cars = MaxAgents
             /\ Cardinality(BorderTrips(sim.trips, j, "walk")) = 0
             /\ Cardinality(BorderTrips(sim.trips, j, "car")) = s.num_cars
             /\ WalkingGoalResolves(s.goal)

\* C13 as claimed: called with the clock at tick zero on a scenario whose
\* referenced neighborhoods are all declared, instantiate does not end in a
\* fatal error, whatever the map and the parking inventory.
C13_NeverFatalWhenDeclared ==
    (sim0.time = 0 /\ Referenced \subseteq Declared) => sim.pc # "panic"

\* the place of a trip in the order instantiate processes its records
Phase(t) == IF t.kind = "spawn" THEN 1 ELSE 2
Part(t) == IF t.kind = "border" /\ t.mode = "car" THEN 2 ELSE 1

InProcessingOrder(t, u) ==
    \/ Phase(t) < Phase(u)
    \/ Phase(t) = Phase(u) /\ t.rec < u.rec
    \/ Phase(t) = Phase(u) /\ t.rec = u.rec /\ Part(t) <= Part(u)

\* C14: the records are processed in a fixed order.  No trip exists while
\* seed_parked_cars is applied, and the seeding ends only after its last
\* record; the trips come out with those of spawn_over_time before those of
\* border_spawn_over_time, by record in declared order, the pedestrians of a
\* border record before its cars; the border records begin only after the
\* last spawn_over_time record; and the parking inventory changes only while
\* seeding, hence never once a trip was emitted.
C14_Step ==
    /\ sim'.pc \in {"call", "load", "seed"} => sim'.trips = <<>>
    /\ (sim.pc = "seed" /\ sim'.pc # "panic") =>
          IF sim.i <= Len(scenario.seed_parked_cars)
          THEN sim'.pc = "seed" /\ sim'.i = sim.i + 1
          ELSE sim'.pc = "spawn" /\ sim'.i = 1
    /\ (sim.pc = "spawn" /\ sim'.pc = "border") =>
          (sim.i = Len(scenario.spawn_over_time) + 1 /\ sim'.i = 1)
    /\ (sim.pc = "agent" /\ sim'.pc = "spawn") => sim'.i = sim.i + 1
    /\ (sim.pc # "seed" \/ sim.trips # <<>>) => sim'.parking = sim.parking
    /\ \E n \in 0..1 : Len(sim'.trips) = Len(sim.trips) + n
    /\ SubSeq(sim'.trips, 1, Len(sim.trips)) = sim.trips
    /\ \A a \in 1..Len(sim'.trips), b \in 1..Len(sim'.trips) :
          a < b => InProcessingOrder(sim'.trips[a], sim'.trips[b])

C14_FixedProcessingOrder == [][C14_Step]_vars

\* a completed call that seeded cars and emitted a spawn_over_time trip and,
\* from one border record, a walk trip and a car trip
C14_Witness ==
    /\ sim.pc = "done" /\ sim.parking # sim0.parking
    /\ Len(scenario.seed_parked_cars) = 2
    /\ \E a \in TripIxs, b \in TripIxs, d \in TripIxs :
          /\ sim.trips[a].kind = "spawn"
          /\ sim.trips[b].kind = "border" /\ sim.trips[b].mode = "walk"
          /\ sim.trips[d].kind = "border" /\ sim.trips[d].mode = "car"
          /\ sim.trips[b].rec = sim.trips[d].rec

\* the saved neighborhoods hold one that took the name _everywhere_
SavedEverywhere == \E j \in 1..Len(persisted) : persisted[j].name = EVERYWHERE

\* C15: once the neighborhoods are loaded, _everywhere_ is among them whether
\* or not one of that name was saved, and it is the synthetic one: its polygon
\* is the map's bounding rectangle and its building and road sets are those
\* of that rectangle, which is what the records naming it use.  A scenario
\* that names no other neighborhood never fails as undeclared.
C15_EverywhereIsSynthetic ==
    /\ sim.pc \notin {"call", "load"} /\ ~(sim.pc = "panic" /\ sim.why = "clock") =>
          /\ EVERYWHERE \in DOMAIN sim.neighborhoods
          /\ sim.neighborhoods[EVERYWHERE] = make_everywhere
          /\ sim.bldgs_per_neighborhood[EVERYWHERE] = find_matching_buildings(make_everywhere)
          /\ sim.roads_per_neighborhood[EVERYWHERE] = find_matching_roads(make_everywhere)
    /\ Referenced \subseteq {EVERYWHERE} => ~(sim.pc = "panic" /\ sim.why = "neighborhood")
    /\ \A a \in TripIxs :
          LET t == sim.trips[a]
          IN /\ (t.kind = "spawn" /\ RecordOf(t).start_from_neighborhood = EVERYWHERE) =>
                   \E j \in 1..Len(find_matching_buildings(make_everywhere)) :
                       t.from = SpotBuilding(find_matching_buildings(make_everywhere)[j])
             /\ RecordOf(t).goal = Neighborhood(EVERYWHERE) =>
                   \E j \in 1..Len(find_matching_buildings(make_everywhere)) :
                       t.goal \in {ParkNear(find_matching_buildings(make_everywhere)[j]),
                                   SpotBuilding(find_matching_buildings(make_everywhere)[j])}

\* a completed call, with a neighborhood saved under the name _everywhere_
\* that holds no building, emitted a trip from _everywhere_ to _everywhere_
C15_Witness ==
    /\ sim.pc = "done" /\ SavedEverywhere
    /\ \E j \in 1..Len(persisted) :
          persisted[j].name = EVERYWHERE /\ find_matching_buildings(persisted[j].polygon) = <<>>
    /\ \E a \in TripIxs :
          /\ sim.trips[a].kind = "spawn"
          /\ RecordOf(sim.trips[a]).start_from_neighborhood = EVERYWHERE
          /\ RecordOf(sim.trips[a]).goal = Neighborhood(EVERYWHERE)

CurrentRecord ==
    IF sim.pc = "agent" THEN scenario.spawn_over_time[sim.i]
    ELSE scenario.border_spawn_over_time[sim.i]

AgentLeft ==
    /\ sim.pc \in {"agent", "ped", "car"}
    /\ CurrentRecord.start_tick < CurrentRecord.stop_tick
    /\ sim.k < (CASE sim.pc = "agent" -> CurrentRecord.num_agents
                  [] sim.pc = "ped" -> CurrentRecord.num_peds
                  [] sim.pc = "car" -> CurrentRecord.num_cars)

\* the buildings a declared neighborhood matches
MatchedBuildings(name) ==
    LET bldgs == find_matching_buildings(LoadedNeighborhoods(persisted)[name])
    IN {bldgs[j] : j \in 1..Len(bldgs)}

\* C18 as claimed: resolving the goal of the record in progress, a Border goal
\* never fails and takes no draw, giving the first incoming driving lane or
\* the sidewalk endpoint of the border, or no goal; a Neighborhood goal of a
\* declared name takes exactly one draw and gives a building of the
\* neighborhood's matched set.
C18_GoalResolution ==
    AgentLeft =>
        LET od == CurrentRecord.goal
            d == pick_driving_goal(od, sim)
            w == pick_walking_goal(od, sim)
        IN /\ od.tag = "Border" =>
                 /\ d.status # "Panic" /\ w.status # "Panic"
                 /\ d.st.rng = sim.rng /\ d.st.draws = sim.draws
                 /\ w.st.rng = sim.rng /\ w.st.draws = sim.draws
                 /\ IF get_incoming_lanes(od.i) = <<>> THEN d.status = "None"
                    ELSE /\ d.status = "Some"
                         /\ d.goal = DrivingBorder(od.i, Head(get_incoming_lanes(od.i)))
                 /\ IF HasSidewalk(od.i)
                    THEN w.status = "Some" /\ w.goal = SpotBorder(od.i)
                    ELSE w.status = "None"
           /\ (od.tag = "Neighborhood" /\ od.name \in Declared) =>
                 /\ d.status = "Some" /\ w.status = "Some"
                 /\ d.st.draws = sim.draws + 1 /\ w.st.draws = sim.draws + 1
                 /\ \E bldg \in MatchedBuildings(od.name) : d.goal = ParkNear(bldg)
                 /\ \E bldg \in MatchedBuildings(od.name) : w.goal = SpotBuilding(bldg)

\* C19 as claimed: instantiate parks a car or emits a trip only for a
\* scenario whose map_name is the name of the map it is handed.
C19_ScenarioOfLoadedMap ==
    (sim.trips # <<>> \/ sim.parking # sim0.parking) => scenario.map_name = MapName

\* C20 as claimed: every drive trip of a spawn_over_time agent is scheduled
\* at the simulation's current tick plus one, its car being in the
\* reservation set from the moment the trip is emitted.
C20_DriveAtNextTick ==
    \A a \in DriveIxs :
        /\ sim.trips[a].at = sim.time + 1
        /\ sim.trips[a].car \in sim.reserved_cars

\* C20, amended: a drive trip of a spawn_over_time agent is scheduled at the
\* spawn tick drawn for that agent from [start_tick, stop_tick), the first
\* draw of its iteration, and not at the current tick plus one; the step that
\* emits the trip is the step that adds its car, unreserved until then, to
\* the reservation set, and the set changes in no other step.
C20_Step ==
    /\ (AgentIteration /\ Len(NewTrips) = 1 /\ NewTrips[1].mode = "drive") =>
          LET s == scenario.spawn_over_time[sim.i]
          IN /\ NewTrips[1].at = gen_range(sim.rng, s.start_tick, s.stop_tick)
             /\ s.start_tick <= NewTrips[1].at /\ NewTrips[1].at < s.stop_tick
             /\ NewTrips[1].car \notin sim.reserved_cars
             /\ sim'.reserved_cars = sim.reserved_cars \cup {NewTrips[1].car}
    /\ sim'.reserved_cars # sim.reserved_cars =>
          /\ AgentIteration
          /\ Len(NewTrips) = 1 /\ NewTrips[1].mode = "drive"

C20_DriveAtSpawnTick == [][C20_Step]_vars

\* with the clock at tick zero a drive trip was just emitted for tick zero,
\* not for tick one, and its car is reserved
C20_Witness ==
    /\ sim.last.kind = "spawn" /\ sim.last.emitted = "drive"
    /\ sim.time = 0
    /\ sim.trips[Len(sim.trips)].mode = "drive"
    /\ sim.trips[Len(sim.trips)].at = 0
    /\ sim.trips[Len(sim.trips)].car \in sim.reserved_cars

----------------------------------------------------------------------------
(* Properties of the number of trips, checked under SpecSmallSpawn         *)

RECURSIVE Total(_)
\* the sum of a list of numbers
Total(ns) == IF ns = <<>> THEN 0 ELSE Head(ns) + Total(Tail(ns))

\* the agents a scenario asks instantiate to attempt
AttemptedAgents(sc) ==
    Total([j \in 1..Len(sc.spawn_over_time) |-> sc.spawn_over_time[j].num_agents])
    + Total([j \in 1..Len(sc.border_spawn_over_time) |->
                sc.border_spawn_over_time[j].num_peds])
    + Total([j \in 1..Len(sc.border_spawn_over_time) |->
                sc.border_spawn_over_time[j].num_cars])

\* the trips of a record of this kind, among the trips emitted
TripsOf(trips, kind, j, modes) ==
    Cardinality({a \in 1..Len(trips) :
                    trips[a].kind = kind /\ trips[a].rec = j /\ trips[a].mode \in modes})

\* C24: a step of instantiate emits at most one trip, and emits it only as
\* one agent iteration, so no record has more trips than agents and the trips
\* never outnumber the agents of the scenario; the scenario small_spawn
\* builds for a map with B incoming and O outgoing borders asks for exactly
\* 100 + 10*O + 10*B + 10*B agents, which bounds its trips.
C24_Step ==
    /\ Len(sim'.trips) <= Len(sim.trips) + 1
    /\ Len(sim'.trips) > Len(sim.trips) =>
          (sim.pc \in {"agent", "ped", "car"} /\ sim'.pc = sim.pc /\ sim'.k = sim.k + 1)
    /\ \A j \in 1..Len(scenario.spawn_over_time) :
          TripsOf(sim'.trips, "spawn", j, {"drive", "walk"})
             <= scenario.spawn_over_time[j].num_agents
    /\ \A j \in 1..Len(scenario.border_spawn_over_time) :
          /\ TripsOf(sim'.trips, "border", j, {"walk"})
                <= scenario.border_spawn_over_time[j].num_peds
          /\ TripsOf(sim'.trips, "border", j, {"car"})
                <= scenario.border_spawn_over_time[j].num_cars
    /\ Len(sim'.trips) <= AttemptedAgents(scenario)
    /\ scenario.scenario_name = "small_spawn" =>
          /\ AttemptedAgents(scenario) =
                100 + 10 * Len(borders.outgoing)
                    + 10 * Len(borders.incoming) + 10 * Len(borders.incoming)
          /\ Len(sim'.trips) <=
                100 + 10 * Len(borders.outgoing) + 20 * Len(borders.incoming)

C24_TripsWithinAgents == [][C24_Step]_vars

\* small_spawn has completed on a map with two incoming borders and one
\* outgoing border: all of its 100 + 10 agents of _everywhere_ got a trip,
\* and the two borders, one without sidewalk and one without lane, fell short
C24_Witness ==
    /\ scenario.scenario_name = "small_spawn" /\ sim.pc = "done"
    /\ Len(borders.incoming) = 2 /\ Len(borders.outgoing) = 1
    /\ Len(sim.trips) >= 110
    /\ Len(sim.trips) < AttemptedAgents(scenario)

----------------------------------------------------------------------------
(* Properties of a second call of instantiate, checked under SpecTwice     *)

SecondCall == first # NoCall

\* C23: no step of instantiate moves the clock, so a completed call leaves
\* it at tick zero and a second call on the same simulation passes the clock
\* assertion; the second call reserves cars from an empty reservation set:
\* its set holds the cars of its own drive trips only, and a car the first
\* call reserved is taken again when it is the first of its building.
C23_Step ==
    /\ sim'.time = sim.time
    /\ sim.pc = "done" => sim.time = 0
    /\ (SecondCall /\ sim.pc = "call") => sim'.pc = "load"
    /\ (SecondCall /\ sim.pc = "seed" /\ sim'.pc = "spawn") => sim'.reserved_cars = {}
    /\ (SecondCall /\ sim'.pc \in {"spawn", "agent", "border", "ped", "lanes", "car", "done"}) =>
          sim'.reserved_cars =
             {sim'.trips[a].car : a \in {x \in 1..Len(sim'.trips) : sim'.trips[x].mode = "drive"}}
    /\ (SecondCall /\ AgentIteration /\ DrivingGoalResolves(scenario.spawn_over_time[sim.i].goal)) =>
          LET mine == {sim.trips[a].car : a \in DriveIxs}
              cars == {c \in 1..Len(sim.parking) :
                          sim.parking[c] = sim'.last.from_bldg /\ c \notin mine}
          IN cars # {} =>
                /\ Len(NewTrips) = 1 /\ NewTrips[1].mode = "drive"
                /\ NewTrips[1].car = SetMin(cars)

C23_SecondCallStartsAfresh == [][C23_Step]_vars

\* the second call has completed and a drive trip of it uses a car that the
\* first call had reserved
C23_Witness ==
    /\ SecondCall /\ first.pc = "done" /\ sim.pc = "done"
    /\ sim.time = 0 /\ first.time = 0
    /\ \E a \in DriveIxs : sim.trips[a].car \in first.reserved_cars

----------------------------------------------------------------------------
(* Sim::run_until_expectations_met.  x is the simulation clock together     *)
(* with the locals of the call; emitted is the history of what step has     *)
(* returned, each event with the tick of its step.                          *)

Events == {"a", "b"}

\* what one step can return, and the expectation lists supplied
EventLists == {<<>>} \cup {<<e>> : e \in Events} \cup {<<e, f>> : e \in Events, f \in Events}

XpAtCall(time, time_limit, all_expectations) ==
    [pc |-> "loop", time |-> time, time_limit |-> time_limit,
     all_expectations |-> all_expectations,
     expectations |-> all_expectations,      \* VecDeque::from(all_expectations)
     events |-> <<>>, emitted |-> <<>>, steps |-> 0, reports |-> 0]

\* loop { if expectations.is_empty() { return; }
XpLoop(x) ==
    IF x.expectations = <<>> THEN [x EXCEPT !.pc = "returned"]
    ELSE [x EXCEPT !.pc = "step"]

\* self.step(&map, &control_map): one tick, returning the tick's events
XpStep(x, evs) ==
    [x EXCEPT !.pc = "for", !.time = @ + 1, !.steps = @ + 1, !.events = evs,
              !.emitted = @ \o [j \in 1..Len(evs) |-> [at |-> x.time + 1, ev |-> evs[j]]]]

\* a for loop that pops the head of the queue on every event, equal or not
XpForPopAny(x) ==
    IF x.events = <<>> THEN [x EXCEPT !.pc = "report"]
    ELSE IF Len(x.expectations) = 1
         THEN [x EXCEPT !.pc = "returned", !.expectations = <<>>, !.events = Tail(@)]
         ELSE [x EXCEPT !.expectations = Tail(@), !.events = Tail(@)]

\* the for loop without the return inside it: the emptied queue is noticed
\* only by the test at the top of the next iteration of the loop
XpForNoReturn(x) ==
    IF x.events = <<>> THEN [x EXCEPT !.pc = "report"]
    ELSE IF x.expectations /= <<>> /\ Head(x.events) = Head(x.expectations)
         THEN [x EXCEPT !.expectations = Tail(@), !.events = Tail(@)]
         ELSE [x EXCEPT !.events = Tail(@)]

\* for ev in ..: one event against the head of the queue, or the end of the loop
XpFor(x) ==
    IF x.events = <<>> THEN [x EXCEPT !.pc = "report"]
    ELSE IF Head(x.events) = Head(x.expectations)
         THEN IF Len(x.expectations) = 1
              THEN [x EXCEPT !.pc = "returned", !.expectations = <<>>, !.events = Tail(@)]
              ELSE [x EXCEPT !.expectations = Tail(@), !.events = Tail(@)]
         ELSE [x EXCEPT !.events = Tail(@)]

\* the speed report of every minute, then if self.time == time_limit { panic!(..) }
XpReport(x) ==
    LET r == IF x.time % TicksPerMinute = 0 THEN x.reports + 1 ELSE x.reports
    IN IF x.time = x.time_limit
       THEN [x EXCEPT !.pc = "panicked", !.reports = r]
       ELSE [x EXCEPT !.pc = "loop", !.reports = r]

SimIdle == SimAtCall(0, 0, <<>>, "forward")
NoScenario == MakeScenario(<<>>, <<>>, <<>>)

InitExpect ==
    \E time \in 0..MaxStart, time_limit \in 0..MaxLimit, all \in EventLists :
        /\ xp = XpAtCall(time, time_limit, all)
        /\ rd = RdIdle /\ fz = FzIdle /\ first = NoCall /\ borders = MapBorders
        /\ scenario = NoScenario /\ persisted = Saved
        /\ sim0 = SimIdle /\ sim = SimIdle /\ twin = SimIdle

XpFrame == UNCHANGED <<scenario, persisted, sim0, sim, twin, rd, fz, first, borders>>

ExpectLoop == xp.pc = "loop" /\ xp' = XpLoop(xp) /\ XpFrame

ExpectStep ==
    /\ xp.pc = "step" /\ xp.time < MaxRunClock
    /\ \E evs \in EventLists : xp' = XpStep(xp, evs)
    /\ XpFrame

ExpectFor == xp.pc = "for" /\ xp' = XpFor(xp) /\ XpFrame

ExpectReport == xp.pc = "report" /\ xp' = XpReport(xp) /\ XpFrame

NextExpect == ExpectLoop \/ ExpectStep \/ ExpectFor \/ ExpectReport

SpecExpect == InitExpect /\ [][NextExpect]_vars

----------------------------------------------------------------------------
(* Properties of run_until_expectations_met, checked under SpecExpect       *)

RECURSIVE IsSubseq(_, _)
\* s is an in-order, not necessarily contiguous, subsequence of t
IsSubseq(s, t) ==
    IF s = <<>> THEN TRUE
    ELSE IF t = <<>> THEN FALSE
    ELSE IF Head(s) = Head(t) THEN IsSubseq(Tail(s), Tail(t))
    ELSE IsSubseq(s, Tail(t))

\* the events of the steps executed until the clock reached time_limit
EmittedUntilLimit ==
    LET within == SelectSeq(xp.emitted, LAMBDA e : e.at <= xp.time_limit)
    IN [j \in 1..Len(within) |-> within[j].ev]

\* the longest prefix of the supplied list found, in order, among events
Matched(events) ==
    CHOOSE n \in 0..Len(xp.all_expectations) :
        /\ IsSubseq(SubSeq(xp.all_expectations, 1, n), events)
        /\ \A m \in (n + 1)..Len(xp.all_expectations) :
              ~IsSubseq(SubSeq(xp.all_expectations, 1, m), events)

Unmatched(events) ==
    SubSeq(xp.all_expectations, Matched(events) + 1, Len(xp.all_expectations))

\* C2 as claimed: the call returns only if the supplied list is an in-order
\* subsequence of the events of the steps executed until the clock reached
\* time_limit, and it fails only if the list is no such subsequence, the
\* queue it reports being the unmatched suffix of the list.
C2_SuccessIffSubsequence ==
    /\ xp.pc = "returned" => IsSubseq(xp.all_expectations, EmittedUntilLimit)
    /\ xp.pc = "panicked" =>
          /\ ~IsSubseq(xp.all_expectations, EmittedUntilLimit)
          /\ xp.expectations = Unmatched(EmittedUntilLimit)

\* C3 as claimed: once a step has been executed, the loop goes on to another
\* step only while the clock is short of time_limit; at or past time_limit
\* with expectations unmet it has failed instead of stepping on.
C3_NeverPastTimeLimit ==
    (xp.pc = "step" /\ xp.steps > 0) => xp.time < xp.time_limit

\* C11: the call returns as soon as the queue is empty.  The step that pops
\* the last expectation is the return itself: it executes no step, leaves the
\* clock alone and leaves the events of the tick that follow the matched one
\* in place, unexamined; nothing is executed with the queue empty except the
\* return; and a call with an empty list never steps nor moves the clock.
C11_Step ==
    /\ (xp.expectations /= <<>> /\ xp'.expectations = <<>>) =>
          /\ xp.pc = "for" /\ xp'.pc = "returned"
          /\ Head(xp.events) = Head(xp.expectations)
          /\ xp'.events = Tail(xp.events)
          /\ xp'.steps = xp.steps /\ xp'.time = xp.time
          /\ xp'.emitted = xp.emitted
    /\ xp.expectations = <<>> =>
          /\ xp'.pc = "returned"
          /\ xp'.steps = xp.steps /\ xp'.time = xp.time
          /\ xp'.events = xp.events /\ xp'.emitted = xp.emitted
    /\ xp.all_expectations = <<>> =>
          /\ xp'.steps = 0 /\ xp'.time = xp.time /\ xp'.emitted = <<>>

C11_ReturnsOnEmptyQueue == [][C11_Step]_vars

\* the last expectation was met by the first of two events of the second
\* step: the call has returned with the other event left unexamined
C11_Witness ==
    /\ xp.pc = "returned" /\ xp.steps = 2
    /\ Len(xp.all_expectations) = 2
    /\ Len(xp.events) = 1

\* s is what is left of t after some of its first elements were taken
IsSuffix(s, t) ==
    Len(s) <= Len(t) /\ s = SubSeq(t, Len(t) - Len(s) + 1, Len(t))

\* the events of the last step, as step returned them
LastStepEvents(x) ==
    LET mine == SelectSeq(x.emitted, LAMBDA e : e.at = x.time)
    IN [j \in 1..Len(mine) |-> mine[j].ev]

\* C21: the pending queue is always a suffix of the supplied list.  A step of
\* the loop leaves the queue alone or takes its head, and it takes the head
\* only when comparing an event equal to it; the events of a tick are compared
\* one at a time in the order step returned them, an event that differs from
\* the head leaving the queue as it was.
C21_Step ==
    /\ IsSuffix(xp.expectations, xp.all_expectations)
    /\ IsSuffix(xp'.expectations, xp.all_expectations)
    /\ xp'.all_expectations = xp.all_expectations
    /\ xp'.expectations # xp.expectations =>
          /\ xp'.expectations = Tail(xp.expectations)
          /\ xp.pc = "for" /\ xp.events # <<>>
          /\ Head(xp.events) = Head(xp.expectations)
    /\ xp.pc = "step" =>
          /\ xp'.events = LastStepEvents(xp')
          /\ IsSuffix(xp'.events, [j \in 1..Len(xp'.emitted) |-> xp'.emitted[j].ev])
    /\ (xp.pc = "for" /\ xp.events # <<>>) =>
          /\ xp'.events = Tail(xp.events)
          /\ Head(xp.events) # Head(xp.expectations) => xp'.expectations = xp.expectations

C21_QueueIsSuffix == [][C21_Step]_vars

\* the first expectation was met, and the event now compared differs from
\* the second, which stays at the head of the queue
C21_Witness ==
    /\ xp.pc = "for" /\ xp.events # <<>>
    /\ Len(xp.all_expectations) = 2 /\ Len(xp.expectations) = 1
    /\ Head(xp.events) # Head(xp.expectations)

----------------------------------------------------------------------------
(* Sim::run_until_done.  r is the simulation (its clock and the agents that *)
(* have not finished) together with the progress of the call; observed is   *)
(* the history of the answers is_done() gave to the loop, done_at_call what  *)
(* is_done() would have answered when the call was made.                    *)

\* a loop that tests is_done() before its first step: while !self.is_done()
RdAtCallTestFirst(time, active) ==
    [pc |-> IF active = 0 THEN "returned" ELSE "step", time |-> time, active |-> active,
     done_at_call |-> (active = 0),
     steps |-> 0, callbacks |-> 0, reports |-> 0, observed |-> <<>>]

RdAtCall(time, active) ==
    [pc |-> "step", time |-> time, active |-> active,
     done_at_call |-> (active = 0),
     steps |-> 0, callbacks |-> 0, reports |-> 0, observed |-> <<>>]

\* self.is_done(): no agent is left to spawn or to finish its trip
is_done(r) == r.active = 0

\* self.step(&map, &control_map), then the speed report of every minute;
\* active is the number of agents the step leaves unfinished
RdStep(r, active) ==
    [r EXCEPT !.pc = "callback", !.time = @ + 1, !.steps = @ + 1, !.active = active,
              !.reports = IF (r.time + 1) % TicksPerMinute = 0 THEN @ + 1 ELSE @]

\* a callback invoked only on the ticks that report the speed
RdCallbackOnReport(r) ==
    [r EXCEPT !.pc = "check",
              !.callbacks = IF r.time % TicksPerMinute = 0 THEN @ + 1 ELSE @]

\* callback(self)
RdCallback(r) == [r EXCEPT !.pc = "check", !.callbacks = @ + 1]

\* if self.is_done() { break; }
RdCheck(r) ==
    [r EXCEPT !.pc = IF is_done(r) THEN "returned" ELSE "step",
              !.observed = Append(@, is_done(r))]

InitDone ==
    \E time \in 0..MaxStart, active \in 0..MaxActive :
        /\ rd = RdAtCall(time, active)
        /\ xp = XpIdle /\ fz = FzIdle /\ first = NoCall /\ borders = MapBorders
        /\ scenario = NoScenario /\ persisted = Saved
        /\ sim0 = SimIdle /\ sim = SimIdle /\ twin = SimIdle

RdFrame == UNCHANGED <<scenario, persisted, sim0, sim, twin, xp, fz, first, borders>>

DoneStep ==
    /\ rd.pc = "step" /\ rd.time < MaxDoneClock
    /\ \E active \in 0..MaxActive : rd' = RdStep(rd, active)
    /\ RdFrame

DoneCallback == rd.pc = "callback" /\ rd' = RdCallback(rd) /\ RdFrame

DoneCheck == rd.pc = "check" /\ rd' = RdCheck(rd) /\ RdFrame

NextDone == DoneStep \/ DoneCallback \/ DoneCheck

SpecDone == InitDone /\ [][NextDone]_vars

----------------------------------------------------------------------------
(* Properties of run_until_done, checked under SpecDone                     *)

\* C10: the callback has run exactly once after every step (between a step
\* and its callback the count is one short, everywhere else the counts are
\* equal), is_done() is asked once per step, after the callback, and the
\* call stops at the first step after which is_done() is true: every earlier
\* answer was false and no step follows a true answer.
C10_CallbackEveryStep ==
    /\ rd.callbacks = (IF rd.pc = "callback" THEN rd.steps - 1 ELSE rd.steps)
    /\ Len(rd.observed) = (IF rd.pc \in {"callback", "check"} THEN rd.steps - 1
                           ELSE rd.steps)
    /\ \A j \in 1..(Len(rd.observed) - 1) : ~rd.observed[j]
    /\ rd.pc = "returned" <=>
          (rd.observed # <<>> /\ rd.observed[Len(rd.observed)])
    /\ rd.pc = "returned" => (is_done(rd) /\ rd.callbacks = rd.steps)

\* the call has returned after several steps, one of them on a tick that
\* reported the speed and one on a tick that did not
C10_Witness ==
    /\ rd.pc = "returned" /\ rd.steps >= 3
    /\ rd.reports >= 1 /\ rd.reports < rd.steps

\* C22: run_until_done executes a step and a callback before anything else,
\* also when is_done() was true at the call: with no step executed the call
\* stands before its first step, is_done() not yet asked; is_done() has been
\* asked at most once per completed step and callback; and a call that has
\* returned has executed at least one step and one callback.
C22_AtLeastOneStep ==
    /\ rd.steps = 0 => (rd.pc = "step" /\ rd.callbacks = 0 /\ rd.observed = <<>>)
    /\ Len(rd.observed) <= rd.callbacks /\ rd.callbacks <= rd.steps
    /\ rd.pc = "returned" => (rd.steps >= 1 /\ rd.callbacks >= 1 /\ rd.observed # <<>>)

\* is_done() was true at the call, and the call returned after one step and
\* one callback
C22_Witness ==
    /\ rd.done_at_call /\ rd.pc = "returned"
    /\ rd.steps = 1 /\ rd.callbacks = 1 /\ Len(rd.observed) = 1

----------------------------------------------------------------------------
(* NeighborhoodBuilder::finalize.  z holds the builder (self), the builder  *)
(* as it was given, and the locals of the call: the points projected so    *)
(* far and the Neighborhood returned.                                      *)

\* the GPS bounds of the map: longitudes 1..MaxLon + 1, latitudes 0..1
GpsBounds == [min_lon |-> 1, max_lon |-> MaxLon + 1, min_lat |-> 0, max_lat |-> 1]

\* the points a builder can hold; those of longitude 0 lie off the bounds
LonLats == {<<lon, lat>> : lon \in 0..(MaxLon + 1), lat \in {0, 1}}

\* Pt2D::from_gps: None off the bounds, else the point in map coordinates,
\* x growing eastwards from min_lon and y growing southwards from max_lat
from_gps(pt, b) ==
    IF pt[1] < b.min_lon \/ pt[1] > b.max_lon \/ pt[2] < b.min_lat \/ pt[2] > b.max_lat
    THEN None
    ELSE <<pt[1] - b.min_lon, b.max_lat - pt[2]>>

\* Polygon::new(&pts): the polygon of these vertices
PolygonNew(pts) == pts

NeighborhoodBuilder(map_name, name, points) ==
    [map_name |-> map_name, name |-> name, points |-> points]

FzAtCall(builder, gps_bounds) ==
    [pc |-> "call", self |-> builder, given |-> builder, gps_bounds |-> gps_bounds,
     pts |-> <<>>, why |-> "", result |-> None]

\* an assertion that lets a builder of two points through
FinalizeAssertTwo(z) ==
    IF Len(z.self.points) >= 2 THEN [z EXCEPT !.pc = "map"]
    ELSE [z EXCEPT !.pc = "panic", !.why = "assert"]

\* assert!(self.points.len() >= 3)
FinalizeAssert(z) ==
    IF Len(z.self.points) >= 3 THEN [z EXCEPT !.pc = "map"]
    ELSE [z EXCEPT !.pc = "panic", !.why = "assert"]

\* .map(|pt| Pt2D::from_gps(*pt, gps_bounds).expect(..)): the next point, or
\* the end of the iteration
FinalizeMap(z) ==
    IF Len(z.pts) = Len(z.self.points) THEN [z EXCEPT !.pc = "collect"]
    ELSE LET pt == from_gps(z.self.points[Len(z.pts) + 1], z.gps_bounds)
         IN IF pt = None THEN [z EXCEPT !.pc = "panic", !.why = "bad pt"]
            ELSE [z EXCEPT !.pts = Append(@, pt)]

\* Neighborhood { map_name: .., name: .., polygon: Polygon::new(..) }
FinalizeReturn(z) ==
    [z EXCEPT !.pc = "returned",
              !.result = [map_name |-> z.self.map_name, name |-> z.self.name,
                          polygon |-> PolygonNew(z.pts)]]

Builders ==
    {NeighborhoodBuilder(id[1], id[2], points) :
        id \in {<<"map", "n1">>, <<"other", "void">>},
        points \in UNION {[1..n -> LonLats] : n \in 0..MaxPoints}}

InitFinalize ==
    \E builder \in Builders :
        /\ fz = FzAtCall(builder, GpsBounds)
        /\ xp = XpIdle /\ rd = RdIdle /\ first = NoCall /\ borders = MapBorders
        /\ scenario = NoScenario /\ persisted = Saved
        /\ sim0 = SimIdle /\ sim = SimIdle /\ twin = SimIdle

FzFrame == UNCHANGED <<scenario, persisted, sim0, sim, twin, xp, rd, first, borders>>

FinalizeCall == fz.pc = "call" /\ fz' = FinalizeAssert(fz) /\ FzFrame

FinalizePoint == fz.pc = "map" /\ fz' = FinalizeMap(fz) /\ FzFrame

FinalizeCollect == fz.pc = "collect" /\ fz' = FinalizeReturn(fz) /\ FzFrame

NextFinalize == FinalizeCall \/ FinalizePoint \/ FinalizeCollect

SpecFinalize == InitFinalize /\ [][NextFinalize]_vars

----------------------------------------------------------------------------
(* Properties of NeighborhoodBuilder::finalize, checked under SpecFinalize *)

\* some point of the builder as given cannot be projected
HasBadPoint ==
    \E j \in 1..Len(fz.given.points) : from_gps(fz.given.points[j], fz.gps_bounds) = None

\* C17: finalize fails on a builder with fewer than three points or with a
\* point that cannot be projected, and only on those; otherwise it returns a
\* Neighborhood with the builder's name and map name whose polygon has the
\* projections of the builder's points, as many and in the same order.  The
\* builder is not changed.
C17_Finalize ==
    /\ fz.self = fz.given
    /\ (Len(fz.given.points) < 3 \/ HasBadPoint) => fz.pc \in {"call", "map", "panic"}
    /\ fz.pc = "panic" =>
          /\ Len(fz.given.points) < 3 \/ HasBadPoint
          /\ fz.result = None
    /\ fz.pc = "returned" =>
          /\ fz.result.name = fz.given.name
          /\ fz.result.map_name = fz.given.map_name
          /\ Len(fz.result.polygon) = Len(fz.given.points)
          /\ \A j \in 1..Len(fz.given.points) :
                fz.result.polygon[j] = from_gps(fz.given.points[j], fz.gps_bounds)

\* a builder of exactly three different points was finalized, and no point
\* kept its coordinates in the projection
C17_Witness ==
    /\ fz.pc = "returned"
    /\ Len(fz.given.points) = 3
    /\ Cardinality({fz.given.points[j] : j \in 1..3}) = 3
    /\ \A j \in 1..3 : fz.result.polygon[j] # fz.given.points[j]

====
